---- MODULE Spec2Model ----
(***************************************************************************)
(* A model of the salt execution module srv/salt/_modules/snapper.py.      *)
(*                                                                         *)
(* The module is a thin client of the snapper D-Bus service.  The service, *)
(* the file system, the passwd database, the clock and the salt runtime    *)
(* (__salt__) are the environment: their answers are inputs drawn from     *)
(* small sets.  Every function of the module is an operator computed the   *)
(* way the Python code computes it; every entry point is an action.        *)
(*                                                                         *)
(* Python values:  None is Absent, a present optional x is Some(x);        *)
(* a dict with string keys is a function whose DOMAIN is its key set;      *)
(* a list is a sequence (Python's l[k] is l[k+1] here); the outcome of a   *)
(* call is Ok(value) or Raise(exception class, message).                   *)
(***************************************************************************)
EXTENDS Integers, Sequences, FiniteSets, TLC

VARIABLES
    svc,              \* what snapper.ListSnapshots(config) answers: raw records
    call,             \* the last finished call of an entry point: op, arg, out
    cmdLog,           \* the commands handed to __salt__['cmd.run'], in order
    userdataDefault,  \* the default userdata dict objects of create_snapshot and run
    prevJid,          \* per entry point: the job id of its last call made with a job id and no userdata
    lastNr,           \* the number of the last snapshot the service created
    ncalls,           \* how many create_snapshot / run calls were made
    fs,               \* file kinds: fs[side][path], side 0 the live tree, side n snapshot n
    mounted,          \* the snapshot ids the service has mounted
    pc,               \* per diff call: the place in diff()
    dpre,             \* per diff call: pre
    dpost,            \* per diff call: post
    dfiles,           \* per diff call: the candidate files still to visit
    files_diff,       \* per diff call: the result dict built so far
    seen,             \* per diff call: the kinds found on the pre and post side of each visited file
    held              \* per diff call: the snapshots it mounted and has not unmounted

vars ==
    <<svc, call, cmdLog, userdataDefault, prevJid, lastNr, ncalls,
      fs, mounted, pc, dpre, dpost, dfiles, files_diff, seen, held>>

apiVars == <<svc, call, cmdLog>>
createVars == <<userdataDefault, prevJid, lastNr, ncalls>>
diffVars == <<fs, mounted, pc, dpre, dpost, dfiles, files_diff, seen, held>>

(***************************************************************************)
(* Bounds of the model.                                                    *)
(***************************************************************************)
MaxSnaps == 2     \* the longest snapshot list the service answers
MaxId    == 3     \* snapshot ids are 1..MaxId
MaxFiles == 2     \* the longest GetFiles answer
MaxCalls == 3     \* the number of create_snapshot / run calls in one run of the model

(***************************************************************************)
(* Python values.                                                          *)
(***************************************************************************)
Absent == << >>
Some(x) == <<x>>
Ok(v) == [status |-> "ok", val |-> v]
Raise(exc, msg) == [status |-> "raise", exc |-> exc, msg |-> msg]

\* body(v) for v the value of e: a local name whose value is computed once
Bind(e, body(_)) == CHOOSE r \in {body(v) : v \in {e}} : TRUE

EmptyDict == [k \in {} |-> ""]
DictSet(d, k, v) == [j \in DOMAIN d \cup {k} |-> IF j = k THEN v ELSE d[j]]

\* bool(x) of an optional integer: None and 0 are false
Truthy(x) == x # Absent /\ x[1] # 0

Idle == [op |-> "idle"]

Jids == {"J1", "J2"}
Configs == {"root"}
Paths == {"/etc/motd", "/etc/issue", "/etc/hosts"}

\* the D-Bus error names the service may answer with; "none" is success
DBusFaults == {"error.unknown_config", "error.illegal_snapshot", "error.io_error"}

\* _dbus_exception_to_reason
DBusExceptionToReason(name, config) ==
    IF name = "error.unknown_config" THEN <<"Unknown configuration", config>>
    ELSE IF name = "error.illegal_snapshot" THEN <<"Invalid snapshot">>
    ELSE <<name>>

(***************************************************************************)
(* _snapshot_to_data: the raw record is                                    *)
(*   <<id, type index, pre, timestamp, uid, description, cleanup, userdata>>*)
(***************************************************************************)
TypeNames == <<"single", "pre", "post">>

\* pwd.getpwuid: the accounts of the host
Passwd == [root |-> 0, user |-> 1000]
GetPwUid(uid) ==
    IF \E n \in DOMAIN Passwd : Passwd[n] = uid
    THEN Ok(CHOOSE n \in DOMAIN Passwd : Passwd[n] = uid)
    ELSE Raise("KeyError", <<"getpwuid(): uid not found">>)

\* data['type'] == 'post' and the assignment of data['pre'] that hangs on it
SetsPreAlways(type) == TRUE
SetsPre(type) == type = "post"

SnapshotToData(snapshot, now) ==
    IF snapshot[2] + 1 \notin DOMAIN TypeNames
    THEN Raise("IndexError", <<"list index out of range">>)
    ELSE
    LET type == TypeNames[snapshot[2] + 1]
        timestamp == IF snapshot[4] # -1 THEN snapshot[4] ELSE now
        userdata == [k \in DOMAIN snapshot[8] |-> snapshot[8][k]]
    IN  Bind(GetPwUid(snapshot[5]), LAMBDA user :
        IF user.status # "ok" THEN user
        ELSE IF SetsPre(type)
        THEN Ok([id |-> snapshot[1], type |-> type, pre |-> snapshot[3],
                 timestamp |-> timestamp, user |-> user.val,
                 description |-> snapshot[6], cleanup |-> snapshot[7],
                 userdata |-> userdata])
        ELSE Ok([id |-> snapshot[1], type |-> type,
                 timestamp |-> timestamp, user |-> user.val,
                 description |-> snapshot[6], cleanup |-> snapshot[7],
                 userdata |-> userdata]))

\* list_snapshots: fault is the service's answer to ListSnapshots
ListSnapshots(list, fault, config, now) ==
    IF fault # "none"
    THEN Raise("CommandExecutionError",
               <<"Error encountered while listing snapshots">>
                   \o DBusExceptionToReason(fault, config))
    ELSE
    Bind([i \in 1..Len(list) |-> SnapshotToData(list[i], now)], LAMBDA outs :
    Bind({i \in 1..Len(list) : outs[i].status # "ok"}, LAMBDA bad :
        IF bad # {}
        THEN outs[CHOOSE i \in bad : \A j \in bad : i <= j]
        ELSE Ok([i \in 1..Len(list) |-> outs[i].val])))

\* sorted(l, key=lambda x: x['id']): a stable insertion sort
RECURSIVE InsertById(_, _)
InsertById(x, sorted) ==
    IF sorted = << >> THEN <<x>>
    ELSE IF sorted[Len(sorted)]["id"] <= x["id"] THEN Append(sorted, x)
    ELSE Append(InsertById(x, SubSeq(sorted, 1, Len(sorted) - 1)), sorted[Len(sorted)])

RECURSIVE SortedById(_)
SortedById(l) ==
    IF l = << >> THEN << >>
    ELSE InsertById(l[Len(l)], SortedById(SubSeq(l, 1, Len(l) - 1)))

\* _get_last_snapshot
GetLastSnapshot(list, fault, config, now) ==
    Bind(ListSnapshots(list, fault, config, now), LAMBDA snaps :
        IF snaps.status # "ok" THEN snaps
        ELSE Bind(SortedById(snaps.val), LAMBDA snapshot_list :
                 IF snapshot_list = << >>
                 THEN Raise("IndexError", <<"list index out of range">>)
                 ELSE Ok(snapshot_list[Len(snapshot_list)])))

\* "int(num_pre) if num_pre else ...": when an argument counts as given
Given(x) == Truthy(x)

\* _get_num_interval
GetNumInterval(list, fault, config, now, num_pre, num_post) ==
    LET post == IF Given(num_post) THEN num_post[1] ELSE 0
    IN  IF Given(num_pre) THEN Ok(<<num_pre[1], post>>)
        ELSE Bind(GetLastSnapshot(list, fault, config, now), LAMBDA last :
                 IF last.status # "ok" THEN last
                 ELSE Ok(<<last.val["id"], post>>))

\* x['userdata'].get("salt_jid", False) == jid, for a jid that is a string
HasJid(x, jid) == "salt_jid" \in DOMAIN x["userdata"] /\ x["userdata"]["salt_jid"] = jid

\* _get_jid_snapshots
GetJidSnapshots(list, fault, config, now, jid) ==
    LET IsJid(x) == HasJid(x, jid)
        IsPre(x) == x["type"] = "pre"
        IsPost(x) == x["type"] = "post"
    IN  Bind(ListSnapshots(list, fault, config, now), LAMBDA snaps :
        IF snaps.status # "ok" THEN snaps
        ELSE
        Bind(SelectSeq(snaps.val, IsJid), LAMBDA jid_snapshots :
        Bind(SelectSeq(jid_snapshots, IsPre), LAMBDA pres :
        Bind(SelectSeq(jid_snapshots, IsPost), LAMBDA posts :
            IF pres = << >> \/ posts = << >>
            THEN Raise("IndexError", <<"list index out of range">>)
            ELSE Ok(<<pres[1]["id"], posts[1]["id"]>>)))))

(***************************************************************************)
(* The environment of the read-only calls.                                 *)
(***************************************************************************)
UserdataTags == {EmptyDict} \cup {DictSet(EmptyDict, "salt_jid", j) : j \in Jids}

\* a record of the service's list: a post snapshot names the snapshot before it
SvcRecord(id, t, ud) ==
    <<id, t, IF t = 2 THEN id - 1 ELSE 0, 1457006571, 0, "Some description", "number", ud>>

SvcRecords == {SvcRecord(id, t, ud) : id \in 1..MaxId, t \in 0..2, ud \in UserdataTags}

\* the lists the service may answer: ids are unique within a config, in any order
SnapshotLists ==
    {l \in UNION {[1..n -> SvcRecords] : n \in 0..MaxSnaps} :
        \A i, j \in DOMAIN l : i # j => l[i][1] # l[j][1]}

\* the records handed to _snapshot_to_data directly
RawRecords ==
    {<<id, t, pre, ts, uid, "Some description", "", ud>> :
        id \in 1..MaxId, t \in 0..3, pre \in 0..MaxId, ts \in {-1, 1457006571},
        uid \in {0, 1000, 4242}, ud \in {EmptyDict, [userdata1 |-> "userval1"]}}

Clock == {1457009999}
Faults == {"none"} \cup DBusFaults
OptIds == {Absent} \cup {Some(n) : n \in 0..MaxId + 1}

InitApi ==
    /\ call = Idle
    /\ cmdLog = << >>

InitCreateOff ==
    /\ userdataDefault = [f \in {"create_snapshot", "run"} |-> EmptyDict]
    /\ prevJid = [f \in {"create_snapshot", "run"} |-> Absent]
    /\ lastNr = 0
    /\ ncalls = 0

InitDiffOff ==
    /\ fs = << >>
    /\ mounted = {}
    /\ pc = << >>
    /\ dpre = << >>
    /\ dpost = << >>
    /\ dfiles = << >>
    /\ files_diff = << >>
    /\ seen = << >>
    /\ held = << >>

(***************************************************************************)
(* _snapshot_to_data called on one record.                                 *)
(***************************************************************************)
SnapshotToDataCall ==
    /\ call = Idle
    /\ \E snapshot \in RawRecords, now \in Clock :
           call' = [op |-> "_snapshot_to_data",
                    arg |-> [snapshot |-> snapshot],
                    out |-> SnapshotToData(snapshot, now)]
    /\ UNCHANGED <<svc, cmdLog, createVars, diffVars>>

InitDecode == svc = << >> /\ InitApi /\ InitCreateOff /\ InitDiffOff
NextDecode == SnapshotToDataCall
SpecDecode == InitDecode /\ [][NextDecode]_vars

(***************************************************************************)
(* list_snapshots, _get_num_interval and _get_jid_snapshots against the    *)
(* list the service holds.                                                 *)
(***************************************************************************)
ListSnapshotsCall ==
    /\ call = Idle
    /\ \E fault \in Faults, config \in Configs, now \in Clock :
           call' = [op |-> "list_snapshots",
                    arg |-> [config |-> config, fault |-> fault],
                    out |-> ListSnapshots(svc, fault, config, now)]
    /\ UNCHANGED <<svc, cmdLog, createVars, diffVars>>

GetNumIntervalCall ==
    /\ call = Idle
    /\ \E fault \in Faults, config \in Configs, now \in Clock,
          num_pre \in OptIds, num_post \in OptIds :
           call' = [op |-> "_get_num_interval",
                    arg |-> [config |-> config, fault |-> fault,
                             num_pre |-> num_pre, num_post |-> num_post],
                    out |-> GetNumInterval(svc, fault, config, now, num_pre, num_post)]
    /\ UNCHANGED <<svc, cmdLog, createVars, diffVars>>

GetJidSnapshotsCall ==
    /\ call = Idle
    /\ \E fault \in Faults, config \in Configs, now \in Clock,
          jid \in Jids \cup {"J0"} :
           call' = [op |-> "_get_jid_snapshots",
                    arg |-> [config |-> config, fault |-> fault, jid |-> jid],
                    out |-> GetJidSnapshots(svc, fault, config, now, jid)]
    /\ UNCHANGED <<svc, cmdLog, createVars, diffVars>>

InitQuery == svc \in SnapshotLists /\ InitApi /\ InitCreateOff /\ InitDiffOff
NextQuery == ListSnapshotsCall \/ GetNumIntervalCall \/ GetJidSnapshotsCall
SpecQuery == InitQuery /\ [][NextQuery]_vars

(***************************************************************************)
(* Claims about decoding and about the read-only calls.                    *)
(***************************************************************************)

TaggedIds(list, jid, t) ==
    {list[i][1] : i \in {k \in DOMAIN list :
        /\ list[k][2] = t
        /\ "salt_jid" \in DOMAIN list[k][8]
        /\ list[k][8]["salt_jid"] = jid}}

\* C5: _get_jid_snapshots looks only at the snapshots tagged salt_jid = jid:
\* with exactly one pre and one post so tagged it returns that (pre id, post
\* id); with no tagged pre or no tagged post it fails with a "no snapshot
\* found for job" error and with nothing else.
C5_JidSnapshots ==
    (call.op = "_get_jid_snapshots" /\ call.arg.fault = "none") =>
        LET pres == TaggedIds(svc, call.arg.jid, 1)
            posts == TaggedIds(svc, call.arg.jid, 2)
        IN  /\ (Cardinality(pres) = 1 /\ Cardinality(posts) = 1) =>
                /\ call.out.status = "ok"
                /\ call.out.val[1] \in pres
                /\ call.out.val[2] \in posts
            /\ (pres = {} \/ posts = {}) =>
                /\ call.out.status = "raise"
                /\ call.out.msg = <<"no snapshot found for job">>

\* the largest id of a list
MaxIdOf(list) == CHOOSE m \in {list[i][1] : i \in DOMAIN list} :
                    \A i \in DOMAIN list : list[i][1] <= m

\* C6: _get_num_interval returns post = 0 when num_post is absent and pre =
\* the largest id of list_snapshots(config) when num_pre is absent; a pre or
\* post that is given is returned as it is, never replaced by a default.
C6_NumInterval ==
    (call.op = "_get_num_interval" /\ call.arg.fault = "none") =>
        (call.out.status = "ok" =>
            /\ call.arg.num_post = Absent => call.out.val[2] = 0
            /\ call.arg.num_post # Absent => call.out.val[2] = call.arg.num_post[1]
            /\ call.arg.num_pre = Absent => call.out.val[1] = MaxIdOf(svc)
            /\ call.arg.num_pre # Absent => call.out.val[1] = call.arg.num_pre[1])

(***************************************************************************)
(* status, changed_files and undo.                                         *)
(*                                                                         *)
(* env is what the service answers during one call: env.at names the       *)
(* D-Bus method that fails ("none": no method fails) with the error        *)
(* env.fault, and env.files is the answer of GetFiles, a list of           *)
(* <<path, status code>>.                                                  *)
(***************************************************************************)
FaultOf(env, method) == IF env.at = method THEN env.fault ELSE "none"

\* a number and a string as values of one dict
PyInt(n) == <<"int", n>>
PyStr(s) == <<"str", s>>

\* _status_to_string
StatusToString(status) ==
    IF status = 2 THEN "deleted"
    ELSE IF status = 8 THEN "modified"
    ELSE IF status = 1 THEN "created"
    ELSE IF status = 16 THEN "path"
    ELSE "unknown"

\* the loop "for file in files: status[file[0]] = file[1]"
RECURSIVE StatusDict(_)
StatusDict(answer) ==
    IF answer = << >> THEN EmptyDict
    ELSE LET file == answer[Len(answer)]
         IN  DictSet(StatusDict(SubSeq(answer, 1, Len(answer) - 1)), file[1], PyInt(file[2]))

\* status
Status(list, env, config, now, num_pre, num_post) ==
    LET failed(fault) ==
            Raise("CommandExecutionError",
                  <<"Error encountered while listing changed files">>
                      \o DBusExceptionToReason(fault, config))
    IN  Bind(GetNumInterval(list, FaultOf(env, "ListSnapshots"), config, now,
                            num_pre, num_post), LAMBDA interval :
        IF interval.status # "ok" THEN interval
        ELSE IF FaultOf(env, "CreateComparison") # "none"
        THEN failed(FaultOf(env, "CreateComparison"))
        ELSE IF FaultOf(env, "GetFiles") # "none"
        THEN failed(FaultOf(env, "GetFiles"))
        ELSE Ok(StatusDict(env.files)))

\* changed_files: the keys of status
ChangedFiles(list, env, config, now, num_pre, num_post) ==
    Bind(Status(list, env, config, now, num_pre, num_post), LAMBDA st :
        IF st.status # "ok" THEN st ELSE Ok(DOMAIN st.val))

\* what the error of undo lists: "changed - requested"
UndoListedSwapped(changed, requested) == requested \ changed
UndoListed(changed, requested) == changed \ requested

\* the parse of the output of cmd.run: a token is the list comp.split(':')
RECURSIVE ParseComponents(_)
ParseComponents(components) ==
    IF components = << >> THEN Ok(EmptyDict)
    ELSE LET comp == components[Len(components)]
         IN  Bind(ParseComponents(SubSeq(components, 1, Len(components) - 1)), LAMBDA rest :
             IF rest.status # "ok" THEN rest
             ELSE IF Len(comp) # 2
             THEN Raise("ValueError", <<"wrong number of values to unpack">>)
             ELSE Ok(DictSet(rest.val, comp[1], comp[2])))

\* undo, as <<outcome, the commands it ran>>; cmdret is what cmd.run prints
Undo(list, env, config, now, files, num_pre, num_post, cmdret) ==
    Bind(GetNumInterval(list, FaultOf(env, "ListSnapshots"), config, now,
                        num_pre, num_post), LAMBDA interval :
    IF interval.status # "ok" THEN <<interval, << >> >>
    ELSE
    Bind(interval.val[1], LAMBDA pre :
    Bind(interval.val[2], LAMBDA post :
    Bind(Status(list, env, config, now, Some(pre), Some(post)), LAMBDA changes :
    IF changes.status # "ok" THEN <<changes, << >> >>
    ELSE
    Bind(DOMAIN changes.val, LAMBDA changed :
    Bind(IF files # Absent /\ files[1] # {} THEN files[1] ELSE changed, LAMBDA requested :
        IF ~(requested \subseteq changed)
        THEN <<Raise("CommandExecutionError",
                     <<"Given file list contains files that are not present"
                       \o "in the changed filelist", UndoListed(changed, requested)>>),
               << >> >>
        ELSE <<ParseComponents(cmdret),
               <<[cmd |-> "snapper undochange", range |-> <<pre, post>>,
                  files |-> requested]>> >>))))))

StatusCodes == {1, 2, 8, 16, 4}

\* the answers of GetFiles: no path twice
FilesAnswers(codes) ==
    {l \in UNION {[1..n -> Paths \X codes] : n \in 0..MaxFiles} :
        \A i, j \in DOMAIN l : i # j => l[i][1] # l[j][1]}

Envs(codes) ==
    {[at |-> "none", fault |-> "none", files |-> l] : l \in FilesAnswers(codes)}
    \cup {[at |-> m, fault |-> f, files |-> << >>] :
             m \in {"ListSnapshots", "CreateComparison", "GetFiles"},
             f \in {"error.unknown_config", "error.illegal_snapshot"}}

\* what cmd.run prints, split at ' ' and then at ':'
CmdOutputs ==
    { << <<"">> >>,
      << <<"create", "0">>, <<"modify", "1">>, <<"delete", "0">> >>,
      << <<"create", "0">>, <<"modify">> >> }

StatusCall ==
    /\ call = Idle
    /\ \E env \in Envs(StatusCodes), config \in Configs, now \in Clock,
          num_pre \in OptIds, num_post \in OptIds :
           call' = [op |-> "status",
                    arg |-> [config |-> config, env |-> env,
                             num_pre |-> num_pre, num_post |-> num_post],
                    out |-> Status(svc, env, config, now, num_pre, num_post)]
    /\ UNCHANGED <<svc, cmdLog, createVars, diffVars>>

ChangedFilesCall ==
    /\ call = Idle
    /\ \E env \in Envs({8, 1}), config \in Configs, now \in Clock,
          num_pre \in {Absent, Some(1)}, num_post \in {Absent, Some(2)} :
           call' = [op |-> "changed_files",
                    arg |-> [config |-> config, env |-> env,
                             num_pre |-> num_pre, num_post |-> num_post],
                    out |-> ChangedFiles(svc, env, config, now, num_pre, num_post)]
    /\ UNCHANGED <<svc, cmdLog, createVars, diffVars>>

UndoCall ==
    /\ call = Idle
    /\ \E env \in Envs({8}), config \in Configs, now \in Clock,
          num_pre \in {Absent, Some(1)}, num_post \in {Absent, Some(0), Some(2)},
          files \in {Absent} \cup {Some(S) : S \in SUBSET (Paths \cup {"/tmp/x"})},
          cmdret \in CmdOutputs :
           \E r \in {Undo(svc, env, config, now, files, num_pre, num_post, cmdret)} :
               /\ call' = [op |-> "undo",
                           arg |-> [config |-> config, env |-> env, files |-> files,
                                    num_pre |-> num_pre, num_post |-> num_post],
                           out |-> r[1]]
               /\ cmdLog' = cmdLog \o r[2]
    /\ UNCHANGED <<svc, createVars, diffVars>>

\* a config without snapshots, and one with a pre/post pair
CompareLists ==
    { << >>,
      <<SvcRecord(1, 1, EmptyDict), SvcRecord(2, 2, EmptyDict)>> }

InitCompare == svc \in CompareLists /\ InitApi /\ InitCreateOff /\ InitDiffOff
NextCompare == StatusCall \/ ChangedFilesCall \/ UndoCall
SpecCompare == InitCompare /\ [][NextCompare]_vars

\* C3: status returns, for every <<path, code>> of the GetFiles answer, the
\* path mapped to the decoded status of the code (1 created, 2 deleted,
\* 8 modified, 16 path, anything else unknown), not to the raw number.
C3_StatusDecoded ==
    (call.op = "status" /\ call.out.status = "ok") =>
        \A i \in DOMAIN call.arg.env.files :
            LET file == call.arg.env.files[i]
            IN  /\ file[1] \in DOMAIN call.out.val
                /\ call.out.val[file[1]] = PyStr(StatusToString(file[2]))

\* the changed files and the requested files of an undo call
UndoChanged == {call.arg.env.files[i][1] : i \in DOMAIN call.arg.env.files}
UndoRequested ==
    IF call.arg.files # Absent /\ call.arg.files[1] # {}
    THEN call.arg.files[1] ELSE UndoChanged

\* the interval of the call resolves and the service answers the comparison
UndoCompared ==
    /\ call.arg.env.at = "none"
    /\ Truthy(call.arg.num_pre) \/ svc # << >>

\* C2: when the files handed to undo are not a subset of the changed files
\* of the interval, undo fails with the error that lists exactly the changed
\* files that were not requested, and cmd.run is not called.
C2_UndoValidates ==
    (call.op = "undo" /\ UndoCompared /\ ~(UndoRequested \subseteq UndoChanged)) =>
        /\ call.out.status = "raise"
        /\ call.out.exc = "CommandExecutionError"
        /\ call.out.msg[2] = UndoChanged \ UndoRequested
        /\ cmdLog = << >>

C2_Witness ==
    /\ call.op = "undo"
    /\ UndoCompared
    /\ UndoRequested = {"/etc/motd", "/tmp/x"}
    /\ UndoChanged = {"/etc/motd", "/etc/issue"}
    /\ call.out.status = "raise"
    /\ call.out.msg[2] = {"/etc/issue"}
    /\ cmdLog = << >>

(***************************************************************************)
(* create_snapshot and run.                                                *)
(*                                                                         *)
(* A description is Absent (None) or the list of the pieces it is made of. *)
(* The default value of the parameter userdata is one dict object per      *)
(* function, made when the function is defined: userdataDefault.           *)
(***************************************************************************)

\* lines 240-241: the description of a job's snapshot
JobDescription(description, jid) ==
    IF description = Absent /\ jid # Absent THEN <<"salt job ", jid[1]>> ELSE description

\* lines 243-244: the dict the call goes on with, the same object, changed in place
JobUserdataUntagged(userdata, jid) == userdata
JobUserdata(userdata, jid) ==
    IF jid # Absent THEN DictSet(userdata, "salt_jid", jid[1]) ELSE userdata

\* create_snapshot: fault is the service's answer, nr the number it gives on
\* success; the result holds the outcome, the userdata object after the
\* call and the D-Bus calls made
CreateSnapshot(config, type, pre_number, description, userdata, jid, fault, nr) ==
    Bind(JobDescription(description, jid), LAMBDA desc :
    Bind(JobUserdata(userdata, jid), LAMBDA ud :
    LET method == IF type = "single" THEN "CreateSingleSnapshot"
                  ELSE IF type = "pre" THEN "CreatePreSnapshot"
                  ELSE "CreatePostSnapshot"
        sent == [kind |-> method, config |-> config,
                 pre_number |-> IF type = "post" THEN pre_number ELSE Absent,
                 description |-> desc, cleanup_algorithm |-> "number",
                 userdata |-> ud,
                 ret |-> IF fault = "none" THEN Some(nr) ELSE Absent]
    IN  IF type \notin {"single", "pre", "post"}
        THEN [out |-> Raise("CommandExecutionError", <<"Invalid snapshot type '{0}'", type>>),
              userdata |-> ud, sent |-> << >>]
        ELSE IF type = "post" /\ pre_number = Absent
        THEN [out |-> Raise("CommandExecutionError",
                            <<"pre snapshot number 'pre_number' needs to be"
                              \o "specified for snapshots of the 'post' type">>),
              userdata |-> ud, sent |-> << >>]
        ELSE IF fault # "none"
        THEN [out |-> Raise("CommandExecutionError",
                            <<"Error encountered while listing changed files">>
                                \o DBusExceptionToReason(fault, config)),
              userdata |-> ud, sent |-> <<sent>>]
        ELSE [out |-> Ok(nr), userdata |-> ud, sent |-> <<sent>>]))

\* run: faults are the service's answers to the two creations, fn is how
\* the wrapped function ends, nr the first free snapshot number
Run(config, description, userdata, jid, faultPre, fn, faultPost, nr) ==
    Bind(CreateSnapshot(config, "pre", Absent, description, userdata, jid, faultPre, nr),
         LAMBDA pre :
        IF pre.out.status # "ok"
        THEN [out |-> pre.out, userdata |-> pre.userdata, sent |-> pre.sent]
        ELSE IF fn # "ok"
        THEN [out |-> Raise("Exception", <<"raised by the function">>),
              userdata |-> pre.userdata,
              sent |-> pre.sent \o <<[kind |-> "function"]>>]
        ELSE
        Bind(CreateSnapshot(config, "post", Some(pre.out.val), description,
                            pre.userdata, jid, faultPost, nr + 1), LAMBDA post :
            [out |-> IF post.out.status = "ok" THEN Ok("ret") ELSE post.out,
             userdata |-> post.userdata,
             sent |-> pre.sent \o <<[kind |-> "function"]>> \o post.sent]))

\* the default of the parameter userdata: the one dict of the function,
\* which keeps what a call writes into it
KeepDefaultFresh(defaults, f, userdata, after) == defaults
KeepDefault(defaults, f, userdata, after) ==
    IF userdata = Absent THEN [defaults EXCEPT ![f] = after] ELSE defaults

\* the numbers the service gave in a list of D-Bus calls
NumbersGiven(sent) ==
    Cardinality({i \in DOMAIN sent : sent[i].kind # "function" /\ sent[i].ret # Absent})

Descriptions == {Absent, <<"before the upgrade">>}
UserdataArgs == {Absent, Some([owner |-> "ops"])}
OptJids == {Absent} \cup {Some(j) : j \in Jids}

CreateSnapshotCall ==
    /\ ncalls < MaxCalls
    /\ \E config \in Configs, type \in {"single", "pre", "post", "other"},
          pre_number \in {Absent, Some(1)}, description \in Descriptions,
          userdata \in UserdataArgs, jid \in OptJids,
          fault \in {"none", "error.unknown_config"} :
           \E r \in {CreateSnapshot(config, type, pre_number, description,
                                     IF userdata = Absent
                                     THEN userdataDefault["create_snapshot"]
                                     ELSE userdata[1],
                                     jid, fault, lastNr + 1)} :
               /\ call' = [op |-> "create_snapshot",
                           arg |-> [type |-> type, pre_number |-> pre_number,
                                    description |-> description,
                                    userdata |-> userdata, jid |-> jid],
                           out |-> r.out, sent |-> r.sent,
                           prevJid |-> prevJid["create_snapshot"]]
               /\ userdataDefault' =
                      KeepDefault(userdataDefault, "create_snapshot", userdata, r.userdata)
               /\ prevJid' = IF userdata = Absent /\ jid # Absent
                              THEN [prevJid EXCEPT !["create_snapshot"] = jid]
                              ELSE prevJid
               /\ lastNr' = lastNr + NumbersGiven(r.sent)
    /\ ncalls' = ncalls + 1
    /\ UNCHANGED <<svc, cmdLog, diffVars>>

RunCall ==
    /\ ncalls < MaxCalls
    /\ \E config \in Configs, description \in Descriptions,
          userdata \in UserdataArgs, jid \in OptJids,
          faultPre \in {"none", "error.unknown_config"}, fn \in {"ok", "raise"},
          faultPost \in {"none", "error.illegal_snapshot"} :
           \E r \in {Run(config, description,
                          IF userdata = Absent THEN userdataDefault["run"] ELSE userdata[1],
                          jid, faultPre, fn, faultPost, lastNr + 1)} :
               /\ call' = [op |-> "run",
                           arg |-> [description |-> description,
                                    userdata |-> userdata, jid |-> jid],
                           out |-> r.out, sent |-> r.sent,
                           prevJid |-> prevJid["run"]]
               /\ userdataDefault' = KeepDefault(userdataDefault, "run", userdata, r.userdata)
               /\ prevJid' = IF userdata = Absent /\ jid # Absent
                              THEN [prevJid EXCEPT !["run"] = jid]
                              ELSE prevJid
               /\ lastNr' = lastNr + NumbersGiven(r.sent)
    /\ ncalls' = ncalls + 1
    /\ UNCHANGED <<svc, cmdLog, diffVars>>

InitCreate == svc = << >> /\ InitApi /\ InitCreateOff /\ InitDiffOff
NextCreate == CreateSnapshotCall \/ RunCall
SpecCreate == InitCreate /\ [][NextCreate]_vars

\* the creations among the D-Bus calls of a call
Creations(sent) == {i \in DOMAIN sent : sent[i].kind # "function"}

\* C4: run for a job J asks for the pre snapshot first, calls the function
\* once and only after the pre snapshot exists, and asks for the post snapshot
\* only after the function, with pre_number the number the service gave the
\* pre snapshot; both creations carry salt_jid = J in userdata and, when no
\* description is given, the description 'salt job J'.
C4_RunBrackets ==
    (call.op = "run" /\ call.arg.jid # Absent) =>
        LET sent == call.sent
            J == call.arg.jid[1]
        IN  /\ Len(sent) \in 1..3
            /\ sent[1].kind = "CreatePreSnapshot"
            /\ Len(sent) >= 2 => (sent[2].kind = "function" /\ sent[1].ret # Absent)
            /\ Len(sent) = 3 =>
                /\ sent[3].kind = "CreatePostSnapshot"
                /\ sent[3].pre_number = sent[1].ret
            /\ call.out.status = "ok" => (Len(sent) = 3 /\ sent[3].ret # Absent)
            /\ \A i \in Creations(sent) :
                /\ "salt_jid" \in DOMAIN sent[i].userdata
                /\ sent[i].userdata["salt_jid"] = J
                /\ call.arg.description = Absent =>
                       sent[i].description = <<"salt job ", J>>
                /\ call.arg.description # Absent =>
                       sent[i].description = call.arg.description

C4_Witness ==
    /\ call.op = "run"
    /\ call.arg.jid = Some("J1")
    /\ call.arg.description = Absent
    /\ call.out.status = "ok"
    /\ Len(call.sent) = 3
    /\ call.sent[3].pre_number = call.sent[1].ret
    /\ call.sent[3].userdata["salt_jid"] = "J1"
    /\ call.sent[3].description = <<"salt job ", "J1">>

\* C10: the default userdata of create_snapshot, and of run, is one dict
\* kept across calls: after a call made with a job id J and no userdata, a
\* later call of the same entry point made with neither a job id nor
\* userdata hands the service userdata holding salt_jid = J, J being the
\* job id of the last such call.
C10_DefaultUserdataKept ==
    (/\ call.op \in {"create_snapshot", "run"}
     /\ call.arg.userdata = Absent
     /\ call.arg.jid = Absent
     /\ call.prevJid # Absent) =>
        \A i \in Creations(call.sent) :
            /\ "salt_jid" \in DOMAIN call.sent[i].userdata
            /\ call.sent[i].userdata["salt_jid"] = call.prevJid[1]

C10_Witness ==
    /\ call.op = "create_snapshot"
    /\ call.arg.userdata = Absent
    /\ call.arg.jid = Absent
    /\ call.prevJid = Some("J1")
    /\ Len(call.sent) = 1
    /\ call.sent[1].userdata["salt_jid"] = "J1"

(***************************************************************************)
(* diff.                                                                   *)
(*                                                                         *)
(* A diff call is a sequence of steps, since several calls may run at the  *)
(* same time against the one service: pc is the place of each call in      *)
(* diff().  A file is absent, a text file or a binary file; the text       *)
(* files hold the same lines.  The root MountSnapshot answers for snapshot n is side n   *)
(* of fs; the empty root "" of post = 0 is side 0, the live tree.          *)
(***************************************************************************)
Procs == {1, 2}
DiffPaths == {"/etc/motd", "/etc/issue"}
DiffSides == 0..2
Kinds == {"absent", "text", "binary"}

\* the service's list during diff: a pre/post pair
DiffList == <<SvcRecord(1, 1, EmptyDict), SvcRecord(2, 2, EmptyDict)>>

\* open(file).readlines() if os.path.isfile(file) else []
Content(kind) ==
    IF kind = "absent" THEN << >>
    ELSE IF kind = "text" THEN <<"a line">>
    ELSE <<"bytes">>

\* _is_text_file: the answer of "file -bi" starts with "text"
IsTextFile(kind) == kind = "text"

\* what is found at root + path: nothing under the root of a snapshot that
\* is not mounted
KindAt(side, path) ==
    IF side # 0 /\ side \notin mounted THEN "absent" ELSE fs[side][path]

\* ''.join(difflib.unified_diff(a, b, fromfile, tofile)): empty for equal
\* contents, else the two headers and the change
UnifiedDiff(a, b, fromfile, tofile) ==
    IF a = b THEN << >>
    ELSE <<"--- ", fromfile, "+++ ", tofile, [removed |-> a, added |-> b]>>

\* lines 483-487: whether files_diff gets an entry for the file
MakesEntry(post_kind) == IsTextFile(post_kind) \/ Content(post_kind) = << >>

\* snapper.UmountSnapshot(config, number, False) issued by call p: the
\* snapshot is unmounted, whoever else mounted it
UmountSnapshotCounted(m, p, number) ==
    IF \E q \in DOMAIN held : q # p /\ number \in held[q] THEN m ELSE m \ {number}
UmountSnapshot(m, p, number) == m \ {number}

DiffEnvs ==
    {e \in Envs({8}) : \A i \in DOMAIN e.files : e.files[i][1] \in DiffPaths}

\* lines 469-471: the interval and the candidate files
DiffBegin(p) ==
    /\ pc[p] = "idle"
    /\ \E config \in Configs, now \in Clock, env \in DiffEnvs,
          filename \in {Absent} \cup {Some(f) : f \in DiffPaths},
          num_pre \in {Absent, Some(1), Some(2)},
          num_post \in {Absent, Some(1), Some(2)} :
           \E interval \in {GetNumInterval(svc, FaultOf(env, "ListSnapshots"), config,
                                             now, num_pre, num_post)} :
           \E changed \in {IF interval.status = "ok"
                            THEN ChangedFiles(svc, env, config, now,
                                              Some(interval.val[1]), Some(interval.val[2]))
                            ELSE interval} :
               \/ /\ interval.status = "ok"
                  /\ filename # Absent \/ changed.status = "ok"
                  /\ dpre' = [dpre EXCEPT ![p] = interval.val[1]]
                  /\ dpost' = [dpost EXCEPT ![p] = interval.val[2]]
                  /\ dfiles' = [dfiles EXCEPT ![p] =
                                   IF filename # Absent THEN {filename[1]} ELSE changed.val]
                  /\ pc' = [pc EXCEPT ![p] = "mount_pre"]
               \/ /\ interval.status # "ok" \/ (filename = Absent /\ changed.status # "ok")
                  /\ pc' = [pc EXCEPT ![p] = "raised"]
                  /\ UNCHANGED <<dpre, dpost, dfiles>>
    /\ UNCHANGED <<fs, mounted, files_diff, seen, held, apiVars, createVars>>

\* line 472: pre_mount = snapper.MountSnapshot(config, pre, False)
DiffMountPre(p) ==
    /\ pc[p] = "mount_pre"
    /\ \/ /\ mounted' = mounted \cup {dpre[p]}
          /\ held' = [held EXCEPT ![p] = @ \cup {dpre[p]}]
          /\ pc' = [pc EXCEPT ![p] = "mount_post"]
       \/ /\ pc' = [pc EXCEPT ![p] = "raised"]
          /\ UNCHANGED <<mounted, held>>
    /\ UNCHANGED <<fs, dpre, dpost, dfiles, files_diff, seen, apiVars, createVars>>

\* line 473: post_mount = snapper.MountSnapshot(config, post, False) if post else ""
DiffMountPost(p) ==
    /\ pc[p] = "mount_post"
    /\ \/ /\ dpost[p] # 0
          /\ mounted' = mounted \cup {dpost[p]}
          /\ held' = [held EXCEPT ![p] = @ \cup {dpost[p]}]
          /\ pc' = [pc EXCEPT ![p] = "filter"]
       \/ /\ dpost[p] # 0
          /\ pc' = [pc EXCEPT ![p] = "raised"]
          /\ UNCHANGED <<mounted, held>>
       \/ /\ dpost[p] = 0
          /\ pc' = [pc EXCEPT ![p] = "filter"]
          /\ UNCHANGED <<mounted, held>>
    /\ UNCHANGED <<fs, dpre, dpost, dfiles, files_diff, seen, apiVars, createVars>>

\* line 476: filter(lambda x: os.path.isfile(x), files), on the live tree
DiffFilter(p) ==
    /\ pc[p] = "filter"
    /\ dfiles' = [dfiles EXCEPT ![p] = {f \in @ : fs[0][f] # "absent"}]
    /\ pc' = [pc EXCEPT ![p] = "loop"]
    /\ UNCHANGED <<fs, mounted, dpre, dpost, files_diff, seen, held, apiVars, createVars>>

\* lines 477-487: one round of the loop
DiffVisit(p) ==
    /\ pc[p] = "loop"
    /\ \E f \in dfiles[p] :
           \E pre_kind \in {KindAt(dpre[p], f)}, post_kind \in {KindAt(dpost[p], f)} :
               /\ files_diff' = [files_diff EXCEPT ![p] =
                      IF MakesEntry(post_kind)
                      THEN DictSet(@, f, UnifiedDiff(Content(pre_kind), Content(post_kind),
                                                     <<dpre[p], f>>, <<dpost[p], f>>))
                      ELSE @]
               /\ seen' = [seen EXCEPT ![p] = DictSet(@, f, <<pre_kind, post_kind>>)]
               /\ dfiles' = [dfiles EXCEPT ![p] = @ \ {f}]
    /\ UNCHANGED <<fs, mounted, pc, dpre, dpost, held, apiVars, createVars>>

\* lines 480-481: open() or readlines() of a file that is there raises
DiffVisitRaises(p) ==
    /\ pc[p] = "loop"
    /\ \E f \in dfiles[p] :
           KindAt(dpre[p], f) # "absent" \/ KindAt(dpost[p], f) # "absent"
    /\ pc' = [pc EXCEPT ![p] = "raised"]
    /\ UNCHANGED <<fs, mounted, dpre, dpost, dfiles, files_diff, seen, held,
                   apiVars, createVars>>

\* line 489: snapper.UmountSnapshot(config, pre, False)
DiffUmountPre(p) ==
    /\ pc[p] = "loop"
    /\ dfiles[p] = {}
    /\ \/ /\ mounted' = UmountSnapshot(mounted, p, dpre[p])
          /\ held' = [held EXCEPT ![p] = @ \ {dpre[p]}]
          /\ pc' = [pc EXCEPT ![p] = "umount_post"]
       \/ /\ pc' = [pc EXCEPT ![p] = "raised"]
          /\ UNCHANGED <<mounted, held>>
    /\ UNCHANGED <<fs, dpre, dpost, dfiles, files_diff, seen, apiVars, createVars>>

\* lines 490-492: if post: snapper.UmountSnapshot(config, post, False)
DiffUmountPost(p) ==
    /\ pc[p] = "umount_post"
    /\ \/ /\ dpost[p] # 0
          /\ mounted' = UmountSnapshot(mounted, p, dpost[p])
          /\ held' = [held EXCEPT ![p] = @ \ {dpost[p]}]
          /\ pc' = [pc EXCEPT ![p] = "done"]
       \/ /\ dpost[p] # 0
          /\ pc' = [pc EXCEPT ![p] = "raised"]
          /\ UNCHANGED <<mounted, held>>
       \/ /\ dpost[p] = 0
          /\ pc' = [pc EXCEPT ![p] = "done"]
          /\ UNCHANGED <<mounted, held>>
    /\ UNCHANGED <<fs, dpre, dpost, dfiles, files_diff, seen, apiVars, createVars>>

InitDiffCalls(running) ==
    /\ svc = DiffList
    /\ InitApi
    /\ InitCreateOff
    /\ mounted = {}
    /\ pc = [p \in Procs |-> IF p \in running THEN "idle" ELSE "off"]
    /\ dpre = [p \in Procs |-> 0]
    /\ dpost = [p \in Procs |-> 0]
    /\ dfiles = [p \in Procs |-> {}]
    /\ files_diff = [p \in Procs |-> EmptyDict]
    /\ seen = [p \in Procs |-> EmptyDict]
    /\ held = [p \in Procs |-> {}]

NextDiff ==
    \E p \in Procs :
        \/ DiffBegin(p)
        \/ DiffMountPre(p)
        \/ DiffMountPost(p)
        \/ DiffFilter(p)
        \/ DiffVisit(p)
        \/ DiffVisitRaises(p)
        \/ DiffUmountPre(p)
        \/ DiffUmountPost(p)

\* one diff call, over every file system
InitDiff == fs \in [DiffSides -> [DiffPaths -> Kinds]] /\ InitDiffCalls({1})
SpecDiff == InitDiff /\ [][NextDiff]_vars

\* two diff calls at the same time, over one file system
RaceFs ==
    [side \in DiffSides |->
        [f \in DiffPaths |->
            IF f = "/etc/motd" THEN (IF side = 1 THEN "absent" ELSE "text")
            ELSE (IF side = 0 THEN "binary" ELSE "absent")]]

InitRace == fs = RaceFs /\ InitDiffCalls(Procs)
SpecRace == InitRace /\ [][NextDiff]_vars

\* C1: no diff call ends, by return or by an error, with a snapshot it
\* mounted still mounted.
C1_NoMountLeak ==
    \A p \in DOMAIN pc : pc[p] \in {"done", "raised"} => held[p] = {}

\* C7: the dict diff builds has no entry for a path that is a regular file
\* neither under the pre root nor on the post side.
C7_NoEntryForAbsent ==
    \A p \in DOMAIN pc :
        \A f \in DOMAIN files_diff[p] : seen[p][f] # <<"absent", "absent">>

\* call p unmounts snapshot s in this step
Unmounts(p, s) ==
    \/ pc[p] = "loop" /\ pc'[p] = "umount_post" /\ s = dpre[p]
    \/ pc[p] = "umount_post" /\ pc'[p] = "done" /\ dpost[p] # 0 /\ s = dpost[p]

\* call q has mounted snapshot s and still has files to read
Reading(q, s) == s \in held[q] /\ (pc[q] = "filter" \/ (pc[q] = "loop" /\ dfiles[q] # {}))

\* C9: mounts are not counted: when a diff call unmounts a snapshot that
\* another diff call has mounted and is still reading, the unmount goes
\* through; the snapshot is unmounted under the other call, which goes on.
C9_UmountUnderReader ==
    [][\A p, q \in DOMAIN pc : \A s \in 1..2 :
          (p # q /\ Unmounts(p, s) /\ Reading(q, s)) =>
              (s \notin mounted' /\ s \in held'[q] /\ pc'[q] = pc[q])]_vars

C9_Witness ==
    \E p, q \in DOMAIN pc : \E s \in 1..2 :
        /\ p # q
        /\ pc[p] \in {"umount_post", "done"}
        /\ s \in {dpre[p], dpost[p]}
        /\ s \notin held[p]
        /\ pc[q] = "loop"
        /\ dfiles[q] # {}
        /\ s \in held[q]
        /\ s \notin mounted

====
